---- MODULE Spec2Model ----
(***************************************************************************)
(* The index update engine of src/search/search-index/add.js: addPage,     *)
(* addPageConcurrent, addBookmarkConcurrent and the indexing pass          *)
(* (performIndexing, indexPage and the five indexers) over the key-value   *)
(* store `index`, with the single write queue `indexQueue`.                *)
(*                                                                         *)
(* One step of the model is one turn of the JavaScript event loop: the     *)
(* completion of one store read or write (or of the pipeline) together     *)
(* with all the synchronous code and promise callbacks it triggers.        *)
(***************************************************************************)
EXTENDS Naturals, FiniteSets, Sequences, TLC

\* ------------------------------------------------------------------ bounds
NReq == 2            \* calls made to the module
NPages == 2          \* distinct page ids
NTerms == 2          \* distinct body terms
MaxTerms == 1        \* body terms of one document the pipeline produces
NUrl == 2            \* distinct url terms
NTitle == 1          \* distinct title terms
NStamp == 1          \* distinct visit / bookmark timestamps carried by documents
MaxTime == 2         \* values of Date.now() and of a supplied bookmark timestamp
MaxLatest == 2       \* values of a document's `latest`
MaxExtras == 1       \* url terms + title terms + visits + bookmarks of one document
MaxFaults == 1       \* store operations that fail

termsSizeLimit == 3000

Reqs == 1..NReq
Times == 1..MaxTime
PageIds == {<<"page", i>> : i \in 1..NPages}
TermKeys == {<<"term", i>> : i \in 1..NTerms}
UrlKeys == {<<"url", i>> : i \in 1..NUrl}
TitleKeys == {<<"title", i>> : i \in 1..NTitle}
DomainKeys == {<<"domain", 1>>}
VisitKeys == {<<"visit", i>> : i \in 1..NStamp}
bookmarkKeyPrefix == "bookmark"
BookmarkKeys == {<<bookmarkKeyPrefix, i>> : i \in 1..NStamp}

Fams == {"domain", "url", "title", "terms", "meta"}

\* The documents the pipeline can produce.
Docs ==
    {d \in [id : PageIds, domain : DomainKeys, terms : SUBSET TermKeys,
            urlTerms : SUBSET UrlKeys, titleTerms : SUBSET TitleKeys,
            visits : SUBSET VisitKeys, bookmarks : SUBSET BookmarkKeys,
            latest : 1..MaxLatest] :
        /\ Cardinality(d.terms) <= MaxTerms
        /\ Cardinality(d.urlTerms) + Cardinality(d.titleTerms)
             + Cardinality(d.visits) + Cardinality(d.bookmarks) <= MaxExtras}

\* The documents of the runs with store faults or direct calls: the page of
\* number i has `latest` min(i, MaxLatest); one body term; url terms only besides.
DocsSmall ==
    {d \in Docs : /\ d.latest = (IF d.id[2] < MaxLatest THEN d.id[2] ELSE MaxLatest)
                  /\ d.terms \subseteq {<<"term", 1>>}
                  /\ d.urlTerms \subseteq {<<"url", 1>>}
                  /\ d.titleTerms = {} /\ d.visits = {} /\ d.bookmarks = {}}

NoDoc == [id |-> <<"page", 0>>, domain |-> <<"domain", 0>>, terms |-> {},
          urlTerms |-> {}, titleTerms |-> {}, visits |-> {}, bookmarks |-> {},
          latest |-> 0]

NoCall == [kind |-> "none", path |-> "none", pageId |-> <<"page", 0>>, timestamp |-> 0]

VARIABLES
    pages,      \* store: page id -> stored document record
    postings,   \* store: term / url / title / domain key -> (page id -> latest)
    stamps,     \* store: visit / bookmark key -> page id
    queue,      \* indexQueue: the units pushed and not finished, head running
    call,       \* per call: which export was called, with what
    pipe,       \* per call: the state of the promise pipeline(req)
    doc,        \* per call: the document the pipeline resolved with
    signal,     \* per call: the state of the promise returned to the caller
    pc,         \* per call: where performIndexing / addBookmark stands
    local,      \* per call: augIndexDoc of the pass / reverseIndexDoc of addBookmark
    now,        \* per call: the default `timestamp` of addBookmark
    ix,         \* per call, per indexer: its position and what its lookup returned
    nwrites,    \* per call: store writes committed on its behalf
    nfaults,    \* store operations that failed so far
    faulted     \* the calls that met a store fault

vars == <<pages, postings, stamps, queue, call, pipe, doc, signal, pc, local,
          now, ix, nwrites, nfaults, faulted>>

store == <<pages, postings, stamps>>

\* ------------------------------------------------------------------ store
\* A read of one key: <<>> for a missing key, <<value>> otherwise.
singleLookup(db, key) == IF key \in DOMAIN db THEN <<db[key]>> ELSE <<>>

lookupByKeys(db, keys) == [k \in keys |-> singleLookup(db, k)]

\* A scan of all the keys of the prefix, cut down to the requested ones.
termRangeLookup(db, keys) ==
    [k \in keys |-> IF k \in DOMAIN db THEN <<db[k]>> ELSE <<>>]

put(db, key, val) == (key :> val) @@ db

\* All the puts of a batch, committed at once.
batchWrite(db, puts) == puts @@ db

\* ------------------------------------------------------------ pure helpers
\* reduceTermValue always starting a new map
reduceTermValue_fresh(currTermVal, indexDoc) == (indexDoc.id :> indexDoc.latest)

\* reduceTermValue with the first entry of a new map left out
reduceTermValue_noInit(currTermVal, indexDoc) ==
    IF currTermVal = <<>>
    THEN <<>>
    ELSE (indexDoc.id :> indexDoc.latest) @@ currTermVal[1]

\* reduceTermValue with the `return currTermVal` left out
reduceTermValue_noReturn(currTermVal, indexDoc) ==
    IF currTermVal = <<>>
    THEN (indexDoc.id :> indexDoc.latest)
    ELSE <<>>

reduceTermValue(currTermVal, indexDoc) ==
    IF currTermVal = <<>>
    THEN (indexDoc.id :> indexDoc.latest)
    ELSE (indexDoc.id :> indexDoc.latest) @@ currTermVal[1]

augmentIndexLookupDoc(d) == d

\* indexPage storing the incoming document as it is
mergeDoc_overwrite(existingDoc, indexDoc) == indexDoc

\* indexPage merging the url terms like the other term sets
mergeDoc_urlToo(existingDoc, indexDoc) ==
    IF existingDoc = <<>>
    THEN indexDoc
    ELSE [indexDoc EXCEPT
            !.terms = existingDoc[1].terms \cup indexDoc.terms,
            !.urlTerms = existingDoc[1].urlTerms \cup indexDoc.urlTerms,
            !.titleTerms = existingDoc[1].titleTerms \cup indexDoc.titleTerms,
            !.visits = existingDoc[1].visits \cup indexDoc.visits,
            !.bookmarks = existingDoc[1].bookmarks \cup indexDoc.bookmarks]

\* newIndexDoc of indexPage
mergeDoc(existingDoc, indexDoc) ==
    IF existingDoc = <<>>
    THEN indexDoc
    ELSE [indexDoc EXCEPT
            !.terms = existingDoc[1].terms \cup indexDoc.terms,
            !.titleTerms = existingDoc[1].titleTerms \cup indexDoc.titleTerms,
            !.visits = existingDoc[1].visits \cup indexDoc.visits,
            !.bookmarks = existingDoc[1].bookmarks \cup indexDoc.bookmarks]

\* The keys an indexer looks up for a document.
famKeys(f, d) ==
    CASE f = "domain" -> {d.domain}
      [] f = "url" -> d.urlTerms
      [] f = "title" -> d.titleTerms
      [] f = "terms" -> d.terms
      [] f = "meta" -> d.bookmarks \cup d.visits

\* The lookup an indexer makes.
famLookup(f, d) ==
    CASE f = "domain" -> lookupByKeys(postings, {d.domain})
      [] f = "meta" -> lookupByKeys(stamps, d.bookmarks \cup d.visits)
      [] OTHER ->
           IF Cardinality(famKeys(f, d)) > termsSizeLimit
           THEN termRangeLookup(postings, famKeys(f, d))
           ELSE lookupByKeys(postings, famKeys(f, d))

\* The batch of a term indexer (also the single put of indexDomain).
termPuts(termValuesMap, indexDoc) ==
    [k \in DOMAIN termValuesMap |-> reduceTermValue(termValuesMap[k], indexDoc)]

\* indexMetaTimestamps putting the missing keys only
metaKeys_absentOnly(timeValuesMap, indexDoc) ==
    {k \in DOMAIN timeValuesMap : timeValuesMap[k] = <<>>}

\* The keys indexMetaTimestamps puts.
metaKeys(timeValuesMap, indexDoc) ==
    {k \in DOMAIN timeValuesMap : timeValuesMap[k] # <<indexDoc.id>>}

metaPuts(timeValuesMap, indexDoc) ==
    [k \in metaKeys(timeValuesMap, indexDoc) |-> indexDoc.id]

\* performIndexing without its empty-terms return
noTerms_never(indexDoc) == FALSE

\* if (!indexDoc.terms.size) return
noTerms(indexDoc) == indexDoc.terms = {}

\* performIndexing throwing the store error again
caught_rethrow == "rejected"

\* What the catch block of performIndexing makes of a store error.
caught == "resolved"

\* addBookmark returning instead of throwing for a missing record
thrown_swallowed == "resolved"

\* What the throw of addBookmark makes of the promise of addBookmarkConcurrent.
thrown == "rejected"

\* performIndexing awaiting the document inside its try block
awaitThrown_caught == "resolved"

\* What a rejected (or, in a queued unit, undefined) indexDoc makes of
\* performIndexing: the await and the read of .terms stand before the try.
awaitThrown == "rejected"

\* reverseIndexDoc.bookmarks replaced by the new key alone
withBookmark_only(reverseIndexDoc, key) ==
    [reverseIndexDoc EXCEPT !.bookmarks = {key}]

\* reverseIndexDoc.bookmarks.add(bookmarkKey)
withBookmark(reverseIndexDoc, key) ==
    [reverseIndexDoc EXCEPT !.bookmarks = @ \cup {key}]

\* A promise settles once.
settle(sig, v) == IF sig = "pending" THEN v ELSE sig

\* ------------------------------------------------------------------ queue
Started(r) ==
    IF call[r].path = "queue"
    THEN queue # <<>> /\ Head(queue) = r
    ELSE call[r].path = "direct"

\* The unit of call r has finished: the queue runs the next one.
finish(r) == IF call[r].path = "queue" THEN Tail(queue) ELSE queue

NoIx == [f \in Fams |-> [pc |-> "off", rd |-> <<>>]]

Init ==
    /\ pages = <<>>
    /\ postings = <<>>
    /\ stamps = <<>>
    /\ queue = <<>>
    /\ call = [r \in Reqs |-> NoCall]
    /\ pipe = [r \in Reqs |-> "none"]
    /\ doc = [r \in Reqs |-> NoDoc]
    /\ signal = [r \in Reqs |-> "none"]
    /\ pc = [r \in Reqs |-> "idle"]
    /\ local = [r \in Reqs |-> NoDoc]
    /\ now = [r \in Reqs |-> 0]
    /\ ix = [r \in Reqs |-> NoIx]
    /\ nwrites = [r \in Reqs |-> 0]
    /\ nfaults = 0
    /\ faulted = {}

NextSlot(r) == pc[r] = "idle" /\ (IF r = 1 THEN TRUE ELSE pc[r - 1] # "idle")

\* ------------------------------------------------------------------ calls
\* addPage(req)
AddPage(r) ==
    /\ NextSlot(r)
    /\ call' = [call EXCEPT ![r] = [NoCall EXCEPT !.kind = "page", !.path = "direct"]]
    /\ pipe' = [pipe EXCEPT ![r] = "pending"]
    /\ signal' = [signal EXCEPT ![r] = "pending"]
    /\ pc' = [pc EXCEPT ![r] = "await_doc"]
    /\ UNCHANGED <<pages, postings, stamps, queue, doc, local, now, ix, nwrites,
                   nfaults, faulted>>

\* addPageConcurrent(req)
AddPageConcurrent(r) ==
    /\ NextSlot(r)
    /\ call' = [call EXCEPT ![r] = [NoCall EXCEPT !.kind = "page", !.path = "queue"]]
    /\ pipe' = [pipe EXCEPT ![r] = "pending"]
    /\ signal' = [signal EXCEPT ![r] = "pending"]
    /\ queue' = Append(queue, r)
    /\ pc' = [pc EXCEPT ![r] = "await_doc"]
    /\ UNCHANGED <<pages, postings, stamps, doc, local, now, ix, nwrites,
                   nfaults, faulted>>

\* addBookmarkConcurrent(pageId, timestamp)
AddBookmarkConcurrent(r) ==
    /\ NextSlot(r)
    /\ \E p \in PageIds, t \in Times :
         call' = [call EXCEPT ![r] = [kind |-> "bookmark", path |-> "queue",
                                      pageId |-> p, timestamp |-> t]]
    /\ signal' = [signal EXCEPT ![r] = "pending"]
    /\ queue' = Append(queue, r)
    /\ pc' = [pc EXCEPT ![r] = "bm_wait"]
    /\ UNCHANGED <<pages, postings, stamps, pipe, doc, local, now, ix, nwrites,
                   nfaults, faulted>>

\* pipeline(req) resolves with a document, one of D
PipelineResolve(r, D) ==
    /\ pipe[r] = "pending"
    /\ \E d \in D : doc' = [doc EXCEPT ![r] = d]
    /\ pipe' = [pipe EXCEPT ![r] = "resolved"]
    /\ UNCHANGED <<pages, postings, stamps, queue, call, signal, pc, local, now,
                   ix, nwrites, nfaults, faulted>>

\* pipeline(req) rejects; addPageConcurrent's .catch(reject) runs
PipelineReject(r) ==
    /\ pipe[r] = "pending"
    /\ pipe' = [pipe EXCEPT ![r] = "rejected"]
    /\ signal' = [signal EXCEPT ![r] =
                    IF call[r].path = "queue" THEN settle(@, "rejected") ELSE @]
    /\ UNCHANGED <<pages, postings, stamps, queue, call, doc, pc, local, now,
                   ix, nwrites, nfaults, faulted>>

\* -------------------------------------------------------- performIndexing
\* indexDoc = await indexDoc; the empty-terms return
PerformStart(r) ==
    /\ pc[r] = "await_doc"
    /\ Started(r)
    /\ pipe[r] \in {"resolved", "rejected"}
    /\ IF pipe[r] = "rejected"
       THEN \* direct: the await throws; queued: indexDoc is undefined, a TypeError
            /\ signal' = [signal EXCEPT ![r] = settle(@, awaitThrown)]
            /\ pc' = [pc EXCEPT ![r] = "done"]
            /\ queue' = finish(r)
       ELSE IF noTerms(doc[r])
       THEN /\ signal' = [signal EXCEPT ![r] = settle(@, "resolved")]
            /\ pc' = [pc EXCEPT ![r] = "done"]
            /\ queue' = finish(r)
       ELSE /\ pc' = [pc EXCEPT ![r] = "page_lookup"]
            /\ UNCHANGED <<signal, queue>>
    /\ UNCHANGED <<pages, postings, stamps, call, pipe, doc, local, now, ix,
                   nwrites, nfaults, faulted>>

\* indexPage: the lookup of the existing record returns; the merge
IndexPageLookup(r) ==
    /\ pc[r] = "page_lookup"
    /\ local' = [local EXCEPT ![r] =
                   augmentIndexLookupDoc(
                       mergeDoc(singleLookup(pages, doc[r].id), doc[r]))]
    /\ pc' = [pc EXCEPT ![r] = "page_put"]
    /\ UNCHANGED <<pages, postings, stamps, queue, call, pipe, doc, signal, now,
                   ix, nwrites, nfaults, faulted>>

\* The five indexers running on the incoming document, not on the merged one
augIndexDoc_incoming(r) == doc[r]

\* The document performIndexing hands to the five indexers.
augIndexDoc(r) == local[r]

\* How an indexer starts: a term indexer of an empty set returns at once.
launch(f, d) ==
    IF f \in {"url", "title", "terms"} /\ famKeys(f, d) = {}
    THEN [pc |-> "done", rd |-> <<>>]
    ELSE [pc |-> "lookup", rd |-> <<>>]

\* indexPage: the put of the merged record returns; the five indexers start
IndexPagePut(r) ==
    /\ pc[r] = "page_put"
    /\ pages' = put(pages, doc[r].id, local[r])
    /\ nwrites' = [nwrites EXCEPT ![r] = @ + 1]
    /\ ix' = [ix EXCEPT ![r] = [f \in Fams |-> launch(f, augIndexDoc(r))]]
    /\ pc' = [pc EXCEPT ![r] = "fanout"]
    /\ UNCHANGED <<postings, stamps, queue, call, pipe, doc, signal, local, now,
                   nfaults, faulted>>

\* indexPage: its lookup or its put fails; the catch of performIndexing
IndexPageFault(r) ==
    /\ pc[r] \in {"page_lookup", "page_put"}
    /\ nfaults < MaxFaults
    /\ nfaults' = nfaults + 1
    /\ faulted' = faulted \cup {r}
    /\ signal' = [signal EXCEPT ![r] = settle(@, caught)]
    /\ pc' = [pc EXCEPT ![r] = "done"]
    /\ queue' = finish(r)
    /\ UNCHANGED <<pages, postings, stamps, call, pipe, doc, local, now, ix, nwrites>>

\* Promise.all waiting for all five indexers to be done, a failed one never
\* counting
ixStep_waitAll(r, f, st) ==
    LET ix2 == [ix[r] EXCEPT ![f] = st]
        ends == pc[r] = "fanout" /\ \A g \in Fams : ix2[g].pc = "done"
    IN  /\ ix' = [ix EXCEPT ![r] = ix2]
        /\ pc' = [pc EXCEPT ![r] = IF ends THEN "done" ELSE @]
        /\ signal' = [signal EXCEPT ![r] = IF ends THEN settle(@, "resolved") ELSE @]
        /\ queue' = IF ends THEN finish(r) ELSE queue

\* Promise.all cancelling the other indexers when one fails
ixStep_abort(r, f, st) ==
    LET failed == st.pc = "failed"
        ix2 == [g \in Fams |-> IF g = f THEN st
                               ELSE IF failed /\ ix[r][g].pc \in {"lookup", "write"}
                                    THEN [ix[r][g] EXCEPT !.pc = "off"]
                                    ELSE ix[r][g]]
        ends == pc[r] = "fanout" /\ (failed \/ \A g \in Fams : ix2[g].pc = "done")
    IN  /\ ix' = [ix EXCEPT ![r] = ix2]
        /\ pc' = [pc EXCEPT ![r] = IF ends THEN "done" ELSE @]
        /\ signal' = [signal EXCEPT ![r] =
                        IF ends THEN settle(@, IF failed THEN caught ELSE "resolved")
                        ELSE @]
        /\ queue' = IF ends THEN finish(r) ELSE queue

\* One indexer of the pass of r moves to state `st`; Promise.all settles when
\* the first indexer fails or the last one is done, and performIndexing returns.
ixStep(r, f, st) ==
    LET ix2 == [ix[r] EXCEPT ![f] = st]
        failed == st.pc = "failed"
        ends == pc[r] = "fanout" /\ (failed \/ \A g \in Fams : ix2[g].pc = "done")
    IN  /\ ix' = [ix EXCEPT ![r] = ix2]
        /\ pc' = [pc EXCEPT ![r] = IF ends THEN "done" ELSE @]
        /\ signal' = [signal EXCEPT ![r] =
                        IF ends THEN settle(@, IF failed THEN caught ELSE "resolved")
                        ELSE @]
        /\ queue' = IF ends THEN finish(r) ELSE queue

\* The lookup of an indexer returns.
IndexerLookup(r, f) ==
    /\ ix[r][f].pc = "lookup"
    /\ ixStep(r, f, [pc |-> "write", rd |-> famLookup(f, augIndexDoc(r))])
    /\ UNCHANGED <<pages, postings, stamps, call, pipe, doc, local, now, nwrites,
                   nfaults, faulted>>

\* The batch (or put) of an indexer is committed.
IndexerWrite(r, f) ==
    /\ ix[r][f].pc = "write"
    /\ LET puts == IF f = "meta" THEN metaPuts(ix[r][f].rd, augIndexDoc(r))
                   ELSE termPuts(ix[r][f].rd, augIndexDoc(r))
       IN  /\ IF f = "meta"
              THEN stamps' = batchWrite(stamps, puts) /\ UNCHANGED postings
              ELSE postings' = batchWrite(postings, puts) /\ UNCHANGED stamps
           /\ nwrites' = [nwrites EXCEPT ![r] = @ + Cardinality(DOMAIN puts)]
    /\ ixStep(r, f, [pc |-> "done", rd |-> <<>>])
    /\ UNCHANGED <<pages, call, pipe, doc, local, now, nfaults, faulted>>

\* The lookup or the batch of an indexer fails.
IndexerFault(r, f) ==
    /\ ix[r][f].pc \in {"lookup", "write"}
    /\ nfaults < MaxFaults
    /\ nfaults' = nfaults + 1
    /\ faulted' = faulted \cup {r}
    /\ ixStep(r, f, [pc |-> "failed", rd |-> <<>>])
    /\ UNCHANGED <<pages, postings, stamps, call, pipe, doc, local, now, nwrites>>

\* ------------------------------------------------------------ addBookmark
\* The queue calls addBookmark(pageId): timestamp = Date.now()
BookmarkStart(r) ==
    /\ pc[r] = "bm_wait"
    /\ Started(r)
    /\ \E t \in Times : now' = [now EXCEPT ![r] = t]
    /\ pc' = [pc EXCEPT ![r] = "bm_lookup"]
    /\ UNCHANGED <<pages, postings, stamps, queue, call, pipe, doc, signal, local,
                   ix, nwrites, nfaults, faulted>>

bookmarkKey(r) == <<bookmarkKeyPrefix, now[r]>>

\* singleLookup(pageId) returns; the throw for a missing record
BookmarkLookup(r) ==
    /\ pc[r] = "bm_lookup"
    /\ LET reverseIndexDoc == singleLookup(pages, call[r].pageId)
       IN  IF reverseIndexDoc = <<>>
           THEN /\ signal' = [signal EXCEPT ![r] = settle(@, thrown)]
                /\ pc' = [pc EXCEPT ![r] = "threw"]
                /\ queue' = finish(r)
                /\ UNCHANGED local
           ELSE /\ local' = [local EXCEPT ![r] = reverseIndexDoc[1]]
                /\ pc' = [pc EXCEPT ![r] = "bm_put_key"]
                /\ UNCHANGED <<signal, queue>>
    /\ UNCHANGED <<pages, postings, stamps, call, pipe, doc, now, ix, nwrites,
                   nfaults, faulted>>

\* index.put(bookmarkKey, pageId) returns
BookmarkPutKey(r) ==
    /\ pc[r] = "bm_put_key"
    /\ stamps' = put(stamps, bookmarkKey(r), call[r].pageId)
    /\ nwrites' = [nwrites EXCEPT ![r] = @ + 1]
    /\ local' = [local EXCEPT ![r] = withBookmark(@, bookmarkKey(r))]
    /\ pc' = [pc EXCEPT ![r] = "bm_put_doc"]
    /\ UNCHANGED <<pages, postings, queue, call, pipe, doc, signal, now, ix,
                   nfaults, faulted>>

\* index.put(pageId, reverseIndexDoc) returns
BookmarkPutDoc(r) ==
    /\ pc[r] = "bm_put_doc"
    /\ pages' = put(pages, call[r].pageId, local[r])
    /\ nwrites' = [nwrites EXCEPT ![r] = @ + 1]
    /\ signal' = [signal EXCEPT ![r] = settle(@, "resolved")]
    /\ pc' = [pc EXCEPT ![r] = "done"]
    /\ queue' = finish(r)
    /\ UNCHANGED <<postings, stamps, call, pipe, doc, local, now, ix, nfaults, faulted>>

\* addBookmark taking its reverse timestamp entry back when a later write fails
BookmarkFault_rollback(r) ==
    /\ pc[r] \in {"bm_lookup", "bm_put_key", "bm_put_doc"}
    /\ nfaults < MaxFaults
    /\ nfaults' = nfaults + 1
    /\ faulted' = faulted \cup {r}
    /\ signal' = [signal EXCEPT ![r] = settle(@, "rejected")]
    /\ pc' = [pc EXCEPT ![r] = "done"]
    /\ queue' = finish(r)
    /\ stamps' = IF pc[r] = "bm_put_doc"
                 THEN [k \in DOMAIN stamps \ {bookmarkKey(r)} |-> stamps[k]]
                 ELSE stamps
    /\ UNCHANGED <<pages, postings, call, pipe, doc, local, now, ix, nwrites>>

\* A store operation of addBookmark fails: the error goes to the caller.
BookmarkFault(r) ==
    /\ pc[r] \in {"bm_lookup", "bm_put_key", "bm_put_doc"}
    /\ nfaults < MaxFaults
    /\ nfaults' = nfaults + 1
    /\ faulted' = faulted \cup {r}
    /\ signal' = [signal EXCEPT ![r] = settle(@, "rejected")]
    /\ pc' = [pc EXCEPT ![r] = "done"]
    /\ queue' = finish(r)
    /\ UNCHANGED <<pages, postings, stamps, call, pipe, doc, local, now, ix, nwrites>>

\* ------------------------------------------------------------------- spec
\* Every call, of both paths, with store faults.
Next ==
    \/ \E r \in Reqs : AddPage(r)
    \/ \E r \in Reqs : AddPageConcurrent(r)
    \/ \E r \in Reqs : AddBookmarkConcurrent(r)
    \/ \E r \in Reqs : PipelineResolve(r, DocsSmall)
    \/ \E r \in Reqs : PipelineReject(r)
    \/ \E r \in Reqs : PerformStart(r)
    \/ \E r \in Reqs : IndexPageLookup(r)
    \/ \E r \in Reqs : IndexPagePut(r)
    \/ \E r \in Reqs : IndexPageFault(r)
    \/ \E r \in Reqs, f \in Fams : IndexerLookup(r, f)
    \/ \E r \in Reqs, f \in Fams : IndexerWrite(r, f)
    \/ \E r \in Reqs, f \in Fams : IndexerFault(r, f)
    \/ \E r \in Reqs : BookmarkStart(r)
    \/ \E r \in Reqs : BookmarkLookup(r)
    \/ \E r \in Reqs : BookmarkPutKey(r)
    \/ \E r \in Reqs : BookmarkPutDoc(r)
    \/ \E r \in Reqs : BookmarkFault(r)

Spec == Init /\ [][Next]_vars

\* Calls through the write queue only, with store faults.
NextQueue ==
    \/ \E r \in Reqs : AddPageConcurrent(r)
    \/ \E r \in Reqs : AddBookmarkConcurrent(r)
    \/ \E r \in Reqs : PipelineResolve(r, DocsSmall)
    \/ \E r \in Reqs : PipelineReject(r)
    \/ \E r \in Reqs : PerformStart(r)
    \/ \E r \in Reqs : IndexPageLookup(r)
    \/ \E r \in Reqs : IndexPagePut(r)
    \/ \E r \in Reqs : IndexPageFault(r)
    \/ \E r \in Reqs, f \in Fams : IndexerLookup(r, f)
    \/ \E r \in Reqs, f \in Fams : IndexerWrite(r, f)
    \/ \E r \in Reqs, f \in Fams : IndexerFault(r, f)
    \/ \E r \in Reqs : BookmarkStart(r)
    \/ \E r \in Reqs : BookmarkLookup(r)
    \/ \E r \in Reqs : BookmarkPutKey(r)
    \/ \E r \in Reqs : BookmarkPutDoc(r)
    \/ \E r \in Reqs : BookmarkFault(r)

SpecQueue == Init /\ [][NextQueue]_vars

\* Calls through the write queue only, the store never failing.
NextSerial ==
    \/ \E r \in Reqs : AddPageConcurrent(r)
    \/ \E r \in Reqs : AddBookmarkConcurrent(r)
    \/ \E r \in Reqs : PipelineResolve(r, Docs)
    \/ \E r \in Reqs : PipelineReject(r)
    \/ \E r \in Reqs : PerformStart(r)
    \/ \E r \in Reqs : IndexPageLookup(r)
    \/ \E r \in Reqs : IndexPagePut(r)
    \/ \E r \in Reqs, f \in Fams : IndexerLookup(r, f)
    \/ \E r \in Reqs, f \in Fams : IndexerWrite(r, f)
    \/ \E r \in Reqs : BookmarkStart(r)
    \/ \E r \in Reqs : BookmarkLookup(r)
    \/ \E r \in Reqs : BookmarkPutKey(r)
    \/ \E r \in Reqs : BookmarkPutDoc(r)

SpecSerial == Init /\ [][NextSerial]_vars

\* Direct calls of addPage only, the store never failing.
NextDirect ==
    \/ \E r \in Reqs : AddPage(r)
    \/ \E r \in Reqs : PipelineResolve(r, DocsSmall)
    \/ \E r \in Reqs : PipelineReject(r)
    \/ \E r \in Reqs : PerformStart(r)
    \/ \E r \in Reqs : IndexPageLookup(r)
    \/ \E r \in Reqs : IndexPagePut(r)
    \/ \E r \in Reqs, f \in Fams : IndexerLookup(r, f)
    \/ \E r \in Reqs, f \in Fams : IndexerWrite(r, f)

SpecDirect == Init /\ [][NextDirect]_vars

\* ----------------------------------------------------------- vocabulary
\* Call r is an indexing request whose pipeline produced a document.
IsPass(r) == call[r].kind = "page" /\ pipe[r] = "resolved"

\* Call r has a store read or write in flight.
InFlight(r) ==
    \/ pc[r] \in {"page_lookup", "page_put", "bm_lookup", "bm_put_key", "bm_put_doc"}
    \/ \E f \in Fams : ix[r][f].pc \in {"lookup", "write"}

\* The pass of r ran to its end and nothing of it is left running.
PassOver(r) == IsPass(r) /\ pc[r] = "done" /\ ~InFlight(r)

\* Call r has (so far) taken no part in indexing page p.
Untouched(r, p) ==
    \/ call[r].kind # "page"
    \/ pc[r] \in {"idle", "await_doc"}
    \/ pipe[r] = "resolved" /\ doc[r].id # p
    \/ pipe[r] = "rejected"

\* ------------------------------------------------------------------ claims
\* C1: two requests through addPageConcurrent for pages of different ids that
\* share a term: once both completion signals have settled (and no other pass
\* touched the two pages), the postings entry of the shared term holds both
\* ids, each with the `latest` of its own document.
C1_NoLostUpdate ==
    \A r1 \in Reqs, r2 \in Reqs, t \in TermKeys :
        ( /\ r1 # r2
          /\ IsPass(r1) /\ IsPass(r2)
          /\ call[r1].path = "queue" /\ call[r2].path = "queue"
          /\ doc[r1].id # doc[r2].id
          /\ t \in doc[r1].terms /\ t \in doc[r2].terms
          /\ signal[r1] = "resolved" /\ signal[r2] = "resolved"
          /\ \A r3 \in Reqs \ {r1, r2} :
                Untouched(r3, doc[r1].id) /\ Untouched(r3, doc[r2].id) )
        => /\ t \in DOMAIN postings
           /\ doc[r1].id \in DOMAIN postings[t]
           /\ doc[r2].id \in DOMAIN postings[t]
           /\ postings[t][doc[r1].id] = doc[r1].latest
           /\ postings[t][doc[r2].id] = doc[r2].latest

C1_Witness ==
    \E r1 \in Reqs, r2 \in Reqs, t \in TermKeys :
        /\ r1 # r2 /\ IsPass(r1) /\ IsPass(r2)
        /\ doc[r1].id # doc[r2].id /\ doc[r1].latest # doc[r2].latest
        /\ t \in doc[r1].terms /\ t \in doc[r2].terms
        /\ signal[r1] = "resolved" /\ signal[r2] = "resolved"
        /\ t \in DOMAIN postings
        /\ DOMAIN postings[t] = {doc[r1].id, doc[r2].id}

\* C2: at most one unit of work of the write queue has store reads or writes
\* in flight, also after a store fault.
C2_MutualExclusion ==
    Cardinality({r \in Reqs : call[r].path = "queue" /\ InFlight(r)}) <= 1

\* C3: addPage is not safe under concurrent use. Two direct passes for pages
\* of different ids sharing a term, both over, no other pass begun: the
\* shared term's postings
\* entry holds at least one of the two ids, and each id it holds has the
\* `latest` of its own document; the witness is the run after which it holds
\* only one of them.
C3_DirectKeepsOne ==
    \A r1 \in Reqs, r2 \in Reqs, t \in TermKeys :
        ( /\ r1 # r2
          /\ PassOver(r1) /\ PassOver(r2)
          /\ call[r1].path = "direct" /\ call[r2].path = "direct"
          /\ doc[r1].id # doc[r2].id
          /\ t \in doc[r1].terms /\ t \in doc[r2].terms
          /\ \A r3 \in Reqs \ {r1, r2}, p \in PageIds : Untouched(r3, p) )
        => /\ t \in DOMAIN postings
           /\ DOMAIN postings[t] \cap {doc[r1].id, doc[r2].id} # {}
           /\ \A r \in {r1, r2} :
                doc[r].id \in DOMAIN postings[t]
                    => postings[t][doc[r].id] = doc[r].latest

C3_LostUpdate ==
    \E r1 \in Reqs, r2 \in Reqs, t \in TermKeys :
        /\ r1 # r2
        /\ PassOver(r1) /\ PassOver(r2)
        /\ call[r1].path = "direct" /\ call[r2].path = "direct"
        /\ signal[r1] = "resolved" /\ signal[r2] = "resolved"
        /\ faulted = {}
        /\ doc[r1].id # doc[r2].id
        /\ t \in doc[r1].terms /\ t \in doc[r2].terms
        /\ t \in DOMAIN postings
        /\ doc[r1].id \notin DOMAIN postings[t]
        /\ doc[r2].id \in DOMAIN postings[t]

\* C4: a pass for a document whose `terms` is empty, through addPage or
\* addPageConcurrent, completes successfully without a single store write
\* and without a store operation left running, whatever its other fields.
C4_NoOpOnEmptyTerms ==
    \A r \in Reqs :
        (IsPass(r) /\ doc[r].terms = {} /\ pc[r] # "await_doc")
        => /\ pc[r] = "done"
           /\ signal[r] = "resolved"
           /\ nwrites[r] = 0
           /\ ~InFlight(r)

C4_Witness ==
    \E r1 \in Reqs, r2 \in Reqs :
        /\ IsPass(r1) /\ doc[r1].terms = {} /\ doc[r1].urlTerms # {}
        /\ pc[r1] = "done" /\ call[r1].path = "direct"
        /\ IsPass(r2) /\ doc[r2].terms = {} /\ doc[r2].urlTerms # {}
        /\ pc[r2] = "done" /\ call[r2].path = "queue"
        /\ pages = <<>> /\ postings = <<>> /\ stamps = <<>>

\* The four merged sets of record a are within those of record b.
Within(a, b) ==
    /\ a.terms \subseteq b.terms
    /\ a.titleTerms \subseteq b.titleTerms
    /\ a.visits \subseteq b.visits
    /\ a.bookmarks \subseteq b.bookmarks

\* C5: across serialized passes (and bookmark attachments) the terms,
\* titleTerms, visits and bookmarks of a stored record never shrink, and once
\* a pass for a document is over the stored record of its page contains what
\* the document carried: after a second pass on a page the record contains
\* what the first pass stored and what the second document carried.
C5_Union ==
    /\ [][\A p \in DOMAIN pages :
            p \in DOMAIN pages' /\ Within(pages[p], pages'[p])]_vars
    /\ [](\A r \in Reqs :
            (PassOver(r) /\ doc[r].terms # {})
            => doc[r].id \in DOMAIN pages /\ Within(doc[r], pages[doc[r].id]))

C5_Witness ==
    \E r1 \in Reqs, r2 \in Reqs :
        /\ r1 < r2
        /\ PassOver(r1) /\ PassOver(r2)
        /\ doc[r1].id = doc[r2].id
        /\ doc[r1].terms # {} /\ doc[r2].terms # {}
        /\ doc[r1].terms # doc[r2].terms
        /\ doc[r1].titleTerms \cup doc[r1].visits \cup doc[r1].bookmarks # {}
        /\ doc[r2].titleTerms \cup doc[r2].visits \cup doc[r2].bookmarks # {}
        /\ ~Within(doc[r1], doc[r2])
        /\ ~Within(doc[r2], doc[r1])
        /\ Within(doc[r1], pages[doc[r1].id])
        /\ Within(doc[r2], pages[doc[r1].id])

\* Call r is the second of two passes in a row for the same document, and runs.
SecondRun(r) ==
    /\ r > 1
    /\ PassOver(r - 1)
    /\ IsPass(r) /\ doc[r] = doc[r - 1]
    /\ queue # <<>> /\ Head(queue) = r

\* C6: while the second of two serialized passes in a row for the same
\* document runs, no postings entry and no reverse timestamp entry changes:
\* they stay what they were after the first pass.
C6_Idempotent ==
    [][(\E r \in Reqs : SecondRun(r)) => (postings' = postings /\ stamps' = stamps)]_vars

C6_Witness ==
    \E r \in Reqs \ {1} :
        /\ PassOver(r - 1) /\ PassOver(r)
        /\ doc[r] = doc[r - 1]
        /\ doc[r].terms # {}
        /\ doc[r].visits \cup doc[r].bookmarks # {}
        /\ nwrites[r] > 0
        /\ doc[r].domain \in DOMAIN postings
        /\ \A k \in doc[r].visits \cup doc[r].bookmarks : k \in DOMAIN stamps

\* C7: when a pass on a page is over and no later pass on that page has
\* started, the postings entry of every term of the stored (merged) record,
\* the terms stored earlier included, maps the page id to the `latest` of the
\* document of that pass.
C7_MergedPostings ==
    \A r \in Reqs :
        ( /\ PassOver(r) /\ doc[r].terms # {}
          /\ \A r2 \in Reqs : r2 > r => Untouched(r2, doc[r].id) )
        => /\ doc[r].id \in DOMAIN pages
           /\ \A t \in pages[doc[r].id].terms :
                /\ t \in DOMAIN postings
                /\ doc[r].id \in DOMAIN postings[t]
                /\ postings[t][doc[r].id] = doc[r].latest

C7_Witness ==
    \E r1 \in Reqs, r2 \in Reqs :
        /\ r1 < r2
        /\ PassOver(r1) /\ PassOver(r2)
        /\ doc[r1].id = doc[r2].id
        /\ doc[r1].latest # doc[r2].latest
        /\ doc[r2].terms # {}
        /\ \E t \in doc[r1].terms \ doc[r2].terms :
             /\ t \in DOMAIN postings
             /\ postings[t][doc[r2].id] = doc[r2].latest

\* C8: in runs that go through the write queue only, with or without store
\* faults, no step removes a page id from a postings entry, and a step changes
\* the value of a page id in a postings entry only when it commits the batch
\* of a pass for that page.
C8_PostingsMonotone ==
    [][\A k \in DOMAIN postings :
         /\ k \in DOMAIN postings'
         /\ \A p \in DOMAIN postings[k] :
              /\ p \in DOMAIN postings'[k]
              /\ \/ postings'[k][p] = postings[k][p]
                 \/ \E r \in Reqs, f \in Fams :
                      /\ ix[r][f].pc = "write" /\ ix'[r][f].pc = "done"
                      /\ augIndexDoc(r).id = p]_vars

\* C9: addBookmark finding no stored record for the page id rejects the
\* caller's promise and writes nothing: the step that finds the record
\* missing leaves the store as it is, and the call has no write at all.
C9_BookmarkPrecondition ==
    /\ [][\A r \in Reqs :
            ( /\ pc[r] = "bm_lookup" /\ pc'[r] # "bm_lookup"
              /\ call[r].pageId \notin DOMAIN pages
              /\ r \notin faulted' )
            => /\ pc'[r] = "threw"
               /\ signal'[r] = "rejected"
               /\ store' = store]_vars
    /\ [](\A r \in Reqs :
            pc[r] = "threw"
            => /\ signal[r] = "rejected"
               /\ nwrites[r] = 0
               /\ ~InFlight(r)
               /\ \A t \in Times : <<bookmarkKeyPrefix, t>> \in DOMAIN stamps
                      => \E r2 \in Reqs \ {r} : nwrites[r2] > 0)

C9_Witness ==
    \E r \in Reqs :
        /\ call[r].kind = "bookmark"
        /\ pc[r] = "threw"
        /\ signal[r] = "rejected"
        /\ call[r].pageId \notin DOMAIN pages
        /\ pages # <<>>

PipeFailed(r) == call[r].kind = "page" /\ pipe[r] = "rejected"

\* C11: when pipeline(req) rejects, the promise of addPage and of
\* addPageConcurrent is rejected (for addPageConcurrent at once, for addPage
\* when performIndexing has returned) and never resolved, and no store
\* operation is ever started or committed for the call.
C11_PipelineFailureNoMutation ==
    \A r \in Reqs :
        PipeFailed(r) =>
            /\ signal[r] # "resolved"
            /\ (call[r].path = "queue" \/ pc[r] = "done") => signal[r] = "rejected"
            /\ nwrites[r] = 0
            /\ ~InFlight(r)
            /\ local[r] = NoDoc
            /\ ix[r] = NoIx

\* A direct and a queued call both failed in the pipeline and returned: both
\* promises are rejected and the store was never written.
C11_Witness ==
    \E r1, r2 \in Reqs :
        /\ PipeFailed(r1) /\ call[r1].path = "direct"
        /\ PipeFailed(r2) /\ call[r2].path = "queue"
        /\ pc[r1] = "done" /\ pc[r2] = "done"
        /\ signal[r1] = "rejected" /\ signal[r2] = "rejected"
        /\ pages = <<>> /\ postings = <<>> /\ stamps = <<>>

\* ------------------------------------------------------------------ C12
\* The units of the write queue, as a set.
Queued == {queue[i] : i \in DOMAIN queue}

\* C12: a call of addPageConcurrent whose pipeline rejected has no unit on
\* the write queue.
C12_NoUnitOnRejection ==
    \A r \in Reqs :
        (PipeFailed(r) /\ call[r].path = "queue") => r \notin Queued

\* ------------------------------------------------------------------ C13
\* Indexer f of the pass of r has every put of its batch in the store.
Committed(r, f, post, st) ==
    IF f = "meta"
    THEN \A k \in famKeys(f, local[r]) : k \in DOMAIN st /\ st[k] = local[r].id
    ELSE \A k \in famKeys(f, local[r]) :
            /\ k \in DOMAIN post
            /\ local[r].id \in DOMAIN post[k]
            /\ post[k][local[r].id] = local[r].latest

\* C13: the step in which one of the five indexers of a pass fails changes
\* nothing in the store (the record put by indexPage and the batches already
\* committed stay) and leaves the other four indexers where they are; and a
\* step in which an indexer of a pass that met a fault finishes its write
\* commits all the puts of its batch.  No step ever removes a document record.
C13_PartialFailureIndependence ==
    [][\A r \in Reqs, f \in Fams :
          /\ (ix[r][f].pc # "failed" /\ ix'[r][f].pc = "failed") =>
                /\ pages' = pages /\ postings' = postings /\ stamps' = stamps
                /\ \A g \in Fams \ {f} : ix'[r][g] = ix[r][g]
                /\ local[r].id \in DOMAIN pages
          /\ (r \in faulted /\ ix[r][f].pc = "write" /\ ix'[r][f].pc = "done") =>
                Committed(r, f, postings', stamps')
          /\ DOMAIN pages \subseteq DOMAIN pages'
      ]_vars

\* The domain indexer of a pass failed and the pass has returned; its url
\* indexer has committed and its terms indexer is still about to write.
C13_Witness ==
    \E r \in Reqs :
        /\ IsPass(r) /\ r \in faulted /\ pc[r] = "done"
        /\ ix[r]["domain"].pc = "failed"
        /\ ix[r]["url"].pc = "done" /\ local[r].urlTerms # {}
        /\ Committed(r, "url", postings, stamps)
        /\ ix[r]["terms"].pc = "write"
        /\ local[r].id \in DOMAIN pages /\ pages[local[r].id] = local[r]

\* ------------------------------------------------------------------ C14
\* C14: the `latest` of a stored document record never decreases, and is at
\* least the `latest` of every document of a finished pass for its page id
\* (so, being one of them, the maximum).
C14_LatestIsMaximum ==
    /\ [][\A p \in DOMAIN pages : pages'[p].latest >= pages[p].latest]_vars
    /\ [](\A r \in Reqs :
            (PassOver(r) /\ nwrites[r] > 0) => pages[doc[r].id].latest >= doc[r].latest)

\* ------------------------------------------------------------------ C15
\* Call r is a bookmark attachment that has written its reverse timestamp entry.
KeyWritten(r) == call[r].kind = "bookmark" /\ nwrites[r] >= 1

\* C15: the key addBookmarkConcurrent(pageId, t) writes is the bookmark prefix
\* followed by the supplied t.
C15_KeyHonoursTimestamp ==
    \A r \in Reqs :
        KeyWritten(r) => bookmarkKey(r) = <<bookmarkKeyPrefix, call[r].timestamp>>

\* ------------------------------------------------------------------ C16
\* C16: in a bookmark attachment on an existing page, run by the queue with
\* the store never failing, (a) the put of the key maps bookmarkKey to the
\* page id and changes nothing else, (b) the put of the record, with which the
\* call resolves, leaves that mapping, stores the page's record with
\* bookmarkKey added to its bookmark set and every other field and earlier
\* bookmark as it was, and changes no other record, and (c) no step of the
\* call changes a postings entry.  bookmarkKey is the key addBookmark formed
\* (see C15 for the time in it).
C16_BookmarkPostcondition ==
    [][\A r \in Reqs :
          (call[r].kind = "bookmark" /\ pc'[r] # pc[r]) =>
             /\ postings' = postings
             /\ pc[r] \in {"bm_wait", "bm_lookup"} => (pages' = pages /\ stamps' = stamps)
             /\ pc[r] = "bm_put_key" =>
                   /\ pages' = pages
                   /\ stamps'[bookmarkKey(r)] = call[r].pageId
                   /\ \A k \in DOMAIN stamps \ {bookmarkKey(r)} :
                         k \in DOMAIN stamps' /\ stamps'[k] = stamps[k]
             /\ pc[r] = "bm_put_doc" =>
                   /\ signal'[r] = "resolved"
                   /\ stamps' = stamps
                   /\ stamps[bookmarkKey(r)] = call[r].pageId
                   /\ DOMAIN pages' = DOMAIN pages
                   /\ \A p \in DOMAIN pages :
                         pages'[p] = IF p = call[r].pageId
                                     THEN [pages[p] EXCEPT
                                             !.bookmarks = @ \cup {bookmarkKey(r)}]
                                     ELSE pages[p]
      ]_vars

\* A bookmark attachment resolved on a page whose record already had another
\* bookmark; both are in the record and the postings are there.
C16_Witness ==
    \E r \in Reqs :
        /\ call[r].kind = "bookmark" /\ pc[r] = "done" /\ signal[r] = "resolved"
        /\ call[r].pageId \in DOMAIN pages
        /\ bookmarkKey(r) \in pages[call[r].pageId].bookmarks
        /\ pages[call[r].pageId].bookmarks # {bookmarkKey(r)}
        /\ stamps[bookmarkKey(r)] = call[r].pageId
        /\ postings # <<>>

\* ------------------------------------------------------------------ C17
\* The put of the key of bookmark call r succeeded and its put of the record
\* failed.
HalfAttached(r) == call[r].kind = "bookmark" /\ r \in faulted /\ nwrites[r] = 1

\* No other bookmark call has written the key of call r.
OnlyWriter(r) ==
    \A r2 \in Reqs \ {r} : ~(KeyWritten(r2) /\ bookmarkKey(r2) = bookmarkKey(r))

\* C17: when the put of bookmarkKey -> pageId succeeded and the put of the
\* record failed, the call is rejected, the reverse timestamp entry is still
\* in the store and the stored record of the page has not got the key in its
\* bookmark set (no other call having written the same key).
C17_NoRollback ==
    \A r \in Reqs :
        (HalfAttached(r) /\ OnlyWriter(r)) =>
            /\ pc[r] = "done" /\ signal[r] = "rejected"
            /\ bookmarkKey(r) \in DOMAIN stamps
            /\ stamps[bookmarkKey(r)] = call[r].pageId
            /\ call[r].pageId \in DOMAIN pages
            /\ bookmarkKey(r) \notin pages[call[r].pageId].bookmarks

\* A bookmark attachment failed between its two puts.
C17_Witness ==
    \E r \in Reqs :
        /\ HalfAttached(r) /\ OnlyWriter(r)
        /\ signal[r] = "rejected"
        /\ stamps[bookmarkKey(r)] = call[r].pageId
        /\ bookmarkKey(r) \notin pages[call[r].pageId].bookmarks
        /\ bookmarkKey(r) \in local[r].bookmarks

\* ------------------------------------------------------------------ C18
\* The timestamp keys of the document the indexers of call r work on.
timeKeys(r) == local[r].bookmarks \cup local[r].visits

\* C18: the write of the timestamp indexer of a pass for document d puts
\* key -> d.id for exactly the keys of d.bookmarks and d.visits that are
\* absent or mapped to another id, and for no key already mapped to d.id;
\* after it every key of d maps to d.id, and every other key is as before.
C18_TimestampIndexer ==
    [][\A r \in Reqs :
          (ix[r]["meta"].pc = "write" /\ ix'[r]["meta"].pc = "done") =>
             LET need == {k \in timeKeys(r) :
                            k \notin DOMAIN stamps \/ stamps[k] # local[r].id}
             IN  /\ nwrites'[r] - nwrites[r] = Cardinality(need)
                 /\ DOMAIN stamps' = DOMAIN stamps \cup need
                 /\ \A k \in timeKeys(r) : stamps'[k] = local[r].id
                 /\ \A k \in DOMAIN stamps \ need : stamps'[k] = stamps[k]
      ]_vars

\* A visit key first put by the pass of one page and then, in a later pass for
\* another page carrying the same key, reassigned to that page.
C18_Witness ==
    \E r1, r2 \in Reqs :
        /\ r1 < r2 /\ PassOver(r1) /\ PassOver(r2)
        /\ local[r1].id # local[r2].id
        /\ nwrites[r1] >= 3 /\ nwrites[r2] >= 3
        /\ \E k \in timeKeys(r1) \cap timeKeys(r2) :
              k \in DOMAIN stamps /\ stamps[k] = local[r2].id

\* ------------------------------------------------------------------ C19
\* C19: while the queue runs the pass of a document d, (a) the record
\* indexPage stores has d's own urlTerms, whatever url terms the record of
\* the page had before, (b) the write of the url indexer gives every url term
\* of d the entry d.id -> d.latest, and (c) no step changes the postings of a
\* url term that is not in d: an entry of the page under an earlier url term
\* keeps its old `latest`.
C19_UrlTermsNotMerged ==
    [][\A r \in Reqs :
          (IsPass(r) /\ Started(r)) =>
             /\ (pc[r] = "page_put" /\ pc'[r] = "fanout") =>
                    pages'[doc[r].id].urlTerms = doc[r].urlTerms
             /\ (ix[r]["url"].pc = "write" /\ ix'[r]["url"].pc = "done") =>
                    \A u \in doc[r].urlTerms :
                        /\ u \in DOMAIN postings'
                        /\ doc[r].id \in DOMAIN postings'[u]
                        /\ postings'[u][doc[r].id] = doc[r].latest
             /\ \A u \in UrlKeys \ doc[r].urlTerms :
                    IF u \in DOMAIN postings
                    THEN u \in DOMAIN postings' /\ postings'[u] = postings[u]
                    ELSE u \notin DOMAIN postings'
      ]_vars

\* A page indexed with one url term and then again with another and a
\* different `latest`: the record has the second url term only, the postings
\* of the first still carry the page with the first `latest`.
C19_Witness ==
    \E r1, r2 \in Reqs :
        /\ r1 < r2 /\ PassOver(r1) /\ PassOver(r2)
        /\ doc[r1].id = doc[r2].id /\ doc[r1].latest # doc[r2].latest
        /\ doc[r1].urlTerms # {} /\ doc[r2].urlTerms # {}
        /\ doc[r1].urlTerms \cap doc[r2].urlTerms = {}
        /\ doc[r1].terms # {} /\ doc[r2].terms # {}
        /\ pages[doc[r2].id].urlTerms = doc[r2].urlTerms
        /\ \A u \in doc[r1].urlTerms : postings[u][doc[r1].id] = doc[r1].latest
        /\ \A u \in doc[r2].urlTerms : postings[u][doc[r2].id] = doc[r2].latest

\* ------------------------------------------------------------------ C20
\* The documents of the runs with fairness: those of DocsSmall without url
\* terms.
DocsLive == {d \in DocsSmall : d.urlTerms = {}}

\* A pipeline call or a store operation of call r returns or fails, or the
\* queue starts the unit of r.
Step(r) ==
    \/ PipelineResolve(r, DocsLive)
    \/ PipelineReject(r)
    \/ PerformStart(r)
    \/ IndexPageLookup(r)
    \/ IndexPagePut(r)
    \/ IndexPageFault(r)
    \/ \E f \in Fams : IndexerLookup(r, f)
    \/ \E f \in Fams : IndexerWrite(r, f)
    \/ \E f \in Fams : IndexerFault(r, f)
    \/ BookmarkStart(r)
    \/ BookmarkLookup(r)
    \/ BookmarkPutKey(r)
    \/ BookmarkPutDoc(r)
    \/ BookmarkFault(r)

\* Calls through the write queue only, with store faults.
NextLive ==
    \/ \E r \in Reqs : AddPageConcurrent(r)
    \/ \E r \in Reqs : AddBookmarkConcurrent(r)
    \/ \E r \in Reqs : Step(r)

\* Whatever a call waits for (its pipeline, a store operation, its turn on
\* the queue) eventually returns or fails.
SpecLive == Init /\ [][NextLive]_vars /\ \A r \in Reqs : WF_vars(Step(r))

\* C20: every call of addPageConcurrent / addBookmarkConcurrent eventually has
\* its promise settled, and every unit pushed on the queue is eventually run
\* to its end and leaves the queue, whatever happened to the units before it.
C20_QueueProgress ==
    \A r \in Reqs :
        /\ (signal[r] = "pending") ~> (signal[r] \in {"resolved", "rejected"})
        /\ (r \in Queued) ~> (r \notin Queued /\ pc[r] \in {"done", "threw"})

\* The pass of the first unit met a store fault; the unit pushed after it has
\* run, written and resolved, and the queue is empty.
C20_Witness ==
    \E r1, r2 \in Reqs :
        /\ r1 < r2
        /\ IsPass(r1) /\ r1 \in faulted /\ signal[r1] = caught
        /\ pc[r2] = "done" /\ signal[r2] = "resolved" /\ nwrites[r2] > 0
        /\ queue = <<>>
====
